---------------------------- MODULE Spec2Model ----------------------------
(***************************************************************************)
(* Family matching: the exact solver of matcher.py (run_matcher over a     *)
(* 0/1 program handed to cvxpy) and the heuristic matcher of               *)
(* old-matcher.py (Family, FamilyMatcher).                                 *)
(***************************************************************************)
EXTENDS Integers, Sequences, FiniteSets, TLC

(***************************************************************************)
(* Bounds of the exact solver's inputs.                                    *)
(***************************************************************************)
MaxUsers == 3
MaxSlots == 2
MaxSize == 2
MaxRank == 2
\* The longest user list that main shuffles
MaxShuffled == 2

(***************************************************************************)
(* Bounds of the heuristic matcher's inputs.                               *)
(***************************************************************************)
NumJMs == 3
NumFamilies == 2
MaxCount == 2
MaxPref == 1
MaxLen == 3

\* old-matcher.py: MAX_ITERS
MAX_ITERS == 100


VARIABLES
    jm_users,          \* run_matcher's jm_users: the list of user ids
    preferences,       \* the list of JMPreference records
    slots,             \* the list of slot ids
    config,            \* MatcherConfig: min_family_size, max_family_size
    preference_map,    \* get_optimization's dict (user_id, slot_id) -> value
    assignment,        \* get_optimization's dict: key -> "Variable" | "Constant"
    status,            \* problem.status after problem.solve
    value,             \* the .value of every cp.Variable (empty: all None)
    final_assignment,  \* run_matcher's dict user_id -> slot id
    pc,                \* where run_matcher is
    outcome,           \* "running", "returned" or the exception raised
    \* old-matcher.py
    jm_count_constraint,     \* the JMCountConstraint
    preference_constraints,  \* the list of PreferenceConstraint (at most one)
    count_constraints,       \* the list of CountConstraint (at most one)
    difference_constraints,  \* the list of DifferenceConstraint (at most one)
    jm_data,                 \* JM.data of every loaded JM
    sm_data,                 \* SMs.data of every family
    families,                \* FamilyMatcher.families: Family.jms, Family.status
    stray_jms,               \* FamilyMatcher.stray_jms
    incomplete_families,     \* iterate's incomplete_families
    complete_families,       \* iterate's complete_families
    step,                    \* the step of iterate that runs next
    iters,                   \* the passes of iterate completed
    call,                    \* the last call of a Family method, with its arguments
    ret                      \* what that call returned

xvars == <<jm_users, preferences, slots, config, preference_map, assignment,
           status, value, final_assignment, pc, outcome>>

hvars == <<jm_count_constraint, preference_constraints, count_constraints,
           difference_constraints, jm_data, sm_data, families, stray_jms,
           incomplete_families, complete_families, step, iters, call, ret>>

vars == <<xvars, hvars>>

(***************************************************************************)
(* Helpers                                                                 *)
(***************************************************************************)
RECURSIVE SumOver(_, _)
SumOver(f, S) ==
    IF S = {} THEN 0
    ELSE LET e == CHOOSE x \in S : TRUE IN f[e] + SumOver(f, S \ {e})

SetMax(S) == CHOOSE x \in S : \A y \in S : y <= x

\* The ids of a list, as the keys of a dict built from it
Ids(list) == {list[i] : i \in DOMAIN list}

(***************************************************************************)
(* The inputs run_matcher is called with.                                  *)
(***************************************************************************)
\* Lists of user ids; an id new to the list is the next unused number, so
\* that lists equal up to renaming are drawn once.  An id may repeat.
UserLists ==
    {us \in UNION {[1..n -> 1..MaxUsers] : n \in 1..MaxUsers} :
        /\ us[1] = 1
        /\ \A i \in 2..Len(us) : us[i] <= 1 + SetMax({us[j] : j \in 1..(i-1)})}

\* Lists of slots: parse_sm_slots numbers them 0, 1, ...
SlotLists == {[j \in 1..n |-> j - 1] : n \in 1..MaxSlots}

Configs == [min_family_size : 0..MaxSize, max_family_size : 1..MaxSize]

Entry(u, s, v) == [user_id |-> u, slot_id |-> s, value |-> v]

\* The pairs of a user list and a slot list, in the order parse_jm_preferences
\* appends their entries (user by user, slot by slot)
RECURSIVE PairSeq(_, _, _)
PairSeq(ids, sl, k) ==
    IF k > Cardinality(ids) * Len(sl) THEN <<>>
    ELSE LET u == ((k - 1) \div Len(sl)) + 1
             j == ((k - 1) % Len(sl)) + 1
         IN  <<(<<u, sl[j]>>)>> \o PairSeq(ids, sl, k + 1)

\* The entries of a rank table r, where r[p] = 0 stands for "no entry"
RECURSIVE EntriesOf(_, _)
EntriesOf(r, pairs) ==
    IF pairs = <<>> THEN <<>>
    ELSE LET p == Head(pairs)
         IN  (IF r[p] = 0 THEN <<>> ELSE <<Entry(p[1], p[2], r[p])>>)
             \o EntriesOf(r, Tail(pairs))

\* An optional trailing entry: a second entry for the first pair (rank 0 or
\* MaxRank), an entry of a user that is not in the list, an entry of a slot
\* that is not in the list
ExtraEntries(us, sl) ==
    {<<>>,
     <<Entry(us[1], sl[1], 0)>>,
     <<Entry(us[1], sl[1], MaxRank)>>,
     <<Entry(MaxUsers + 1, sl[1], 1)>>,
     <<Entry(us[1], MaxSlots, 1)>>}

PrefLists(us, sl) ==
    LET pairs == PairSeq(Ids(us), sl, 1)
        P == {pairs[i] : i \in DOMAIN pairs}
    IN  {EntriesOf(r, pairs) \o x :
            r \in [P -> 0..MaxRank], x \in ExtraEntries(us, sl)}

(***************************************************************************)
(* get_optimization                                                        *)
(***************************************************************************)
KeyOf(e) == <<e.user_id, e.slot_id>>

\* preference_map[(user_id, slot_id)] = value, a later entry overwriting an
\* earlier one of the same pair
PreferenceMapOf(prefs) ==
    [p \in {KeyOf(prefs[i]) : i \in DOMAIN prefs} |->
        prefs[SetMax({i \in DOMAIN prefs : KeyOf(prefs[i]) = p})].value]

\* Mutant: a pair without an entry defaults to rank 1
GetPref_default1(pm, u, s) == IF <<u, s>> \in DOMAIN pm THEN pm[<<u, s>>] ELSE 1

\* preference_map.get((user.id, slot.id), 0)
GetPref(pm, u, s) == IF <<u, s>> \in DOMAIN pm THEN pm[<<u, s>>] ELSE 0

\* Mutant: `pref < 0` for `pref <= 0`
AssignmentOf_lt(us, sl, pm) ==
    [p \in Ids(us) \X Ids(sl) |->
        IF GetPref(pm, p[1], p[2]) < 0 THEN "Constant" ELSE "Variable"]

\* assignment[user.id, slot.id]: cp.Constant(0) when pref <= 0, else a
\* boolean cp.Variable.  A dict: one key per distinct (user id, slot id).
AssignmentOf(us, sl, pm) ==
    [p \in Ids(us) \X Ids(sl) |->
        IF GetPref(pm, p[1], p[2]) <= 0 THEN "Constant" ELSE "Variable"]

VariablesOf(asg) == {p \in DOMAIN asg : asg[p] = "Variable"}

\* The value of assignment[u, s] under the values x of the variables
Term(asg, x, u, s) == IF asg[<<u, s>>] = "Variable" THEN x[<<u, s>>] ELSE 0

\* Mutant: the constraint is added for the first user of the list only
ExactlyOne_first(us, sl, asg, x) ==
    SumOver([j \in DOMAIN sl |-> Term(asg, x, us[1], sl[j])], DOMAIN sl) = 1

\* Mutant: `<= 1` for `== 1`
ExactlyOne_le(us, sl, asg, x) ==
    \A i \in DOMAIN us :
        SumOver([j \in DOMAIN sl |-> Term(asg, x, us[i], sl[j])], DOMAIN sl) <= 1

\* sum(assignment[user.id, slot.id] for slot in slots) == 1, for user in jm_users
ExactlyOne(us, sl, asg, x) ==
    \A i \in DOMAIN us :
        SumOver([j \in DOMAIN sl |-> Term(asg, x, us[i], sl[j])], DOMAIN sl) = 1

\* min_family_size <= sum(assignment[user.id, slot.id] for user in jm_users)
\*                 <= max_family_size, for slot in slots
FamilySize(us, asg, x, s) ==
    SumOver([i \in DOMAIN us |-> Term(asg, x, us[i], s)], DOMAIN us)

\* Mutant: the lower bound left out
Capacity_nomin(us, sl, cfg, asg, x) ==
    \A j \in DOMAIN sl :
        FamilySize(us, asg, x, sl[j]) <= cfg.max_family_size

Capacity(us, sl, cfg, asg, x) ==
    \A j \in DOMAIN sl :
        /\ cfg.min_family_size <= FamilySize(us, asg, x, sl[j])
        /\ FamilySize(us, asg, x, sl[j]) <= cfg.max_family_size

Constraints(us, sl, cfg, asg, x) ==
    ExactlyOne(us, sl, asg, x) /\ Capacity(us, sl, cfg, asg, x)

\* sum(preference_map[key] * variable for key, variable in assignment.items()
\*     if key in preference_map)
Objective(pm, asg, x) ==
    LET keys == DOMAIN asg \cap DOMAIN pm
    IN  SumOver([p \in keys |-> pm[p] * Term(asg, x, p[1], p[2])], keys)

(***************************************************************************)
(* problem.solve: cvxpy's contract.  Every variable gets the value it has  *)
(* in one optimal feasible point, or None when the problem is infeasible.  *)
(***************************************************************************)
Points(asg) == [VariablesOf(asg) -> {0, 1}]

FeasiblePoints(us, sl, cfg, asg) ==
    {x \in Points(asg) : Constraints(us, sl, cfg, asg, x)}

OptimalPoints(us, sl, cfg, pm, asg) ==
    LET F == FeasiblePoints(us, sl, cfg, asg)
    IN  {x \in F : \A y \in F : Objective(pm, asg, x) <= Objective(pm, asg, y)}

(***************************************************************************)
(* run_matcher's extraction loop                                           *)
(***************************************************************************)
\* matched_slot_ids of one user: the slots whose Variable has value > EPS
MatchedSlotIds(sl, asg, x, u) ==
    {s \in Ids(sl) : asg[<<u, s>>] = "Variable" /\ x[<<u, s>>] = 1}

\* What the loop body does for one user: "ok", or the exception it raises.
\* After an infeasible solve every value is None, and
\* `assignment_obj.value > EPS` raises TypeError at the
\* user's first Variable; a user without Variables fails the assert.
UserStep(sl, asg, st, x, u) ==
    IF st = "infeasible"
    THEN IF \E s \in Ids(sl) : asg[<<u, s>>] = "Variable"
         THEN "TypeError" ELSE "AssertionError"
    ELSE IF Cardinality(MatchedSlotIds(sl, asg, x, u)) = 1
         THEN "ok" ELSE "AssertionError"

\* The first user of the list whose loop body raises, 0 when none does
FirstFailure(us, sl, asg, st, x) ==
    LET bad == {i \in DOMAIN us : UserStep(sl, asg, st, x, us[i]) # "ok"}
    IN  IF bad = {} THEN 0 ELSE CHOOSE i \in bad : \A k \in bad : i <= k

Emp == [p \in {} |-> 0]

(***************************************************************************)
(* Actions of the exact solver                                             *)
(***************************************************************************)
\* The heuristic matcher is not loaded
MatcherIdle ==
    /\ jm_count_constraint = [min_count |-> 0, max_count |-> 0]
    /\ preference_constraints = <<>>
    /\ count_constraints = <<>>
    /\ difference_constraints = <<>>
    /\ jm_data = <<>>
    /\ sm_data = <<>>
    /\ families = <<>>
    /\ stray_jms = <<>>
    /\ incomplete_families = <<>>
    /\ complete_families = <<>>
    /\ step = "idle"
    /\ iters = 0
    /\ call = [method |-> "idle", args |-> <<>>,
               fam |-> [jms |-> <<>>, status |-> "INCOMPLETE"]]
    /\ ret = "none"

InitExact ==
    /\ MatcherIdle
    /\ jm_users \in UserLists
    /\ slots \in SlotLists
    /\ config \in Configs
    /\ preferences \in PrefLists(jm_users, slots)
    /\ preference_map = Emp
    /\ assignment = Emp
    /\ status = "unsolved"
    /\ value = Emp
    /\ final_assignment = Emp
    /\ pc = "get_optimization"
    /\ outcome = "running"

GetOptimization ==
    /\ pc = "get_optimization"
    /\ preference_map' = PreferenceMapOf(preferences)
    /\ assignment' = AssignmentOf(jm_users, slots, preference_map')
    /\ pc' = "solve"
    /\ UNCHANGED <<jm_users, preferences, slots, config, status, value,
                   final_assignment, outcome>>

Solve ==
    /\ pc = "solve"
    /\ LET opt == OptimalPoints(jm_users, slots, config, preference_map, assignment)
       IN  IF opt = {}
           THEN status' = "infeasible" /\ value' = Emp
           ELSE status' = "optimal" /\ value' \in opt
    /\ pc' = "extract"
    /\ UNCHANGED <<jm_users, preferences, slots, config, preference_map,
                   assignment, final_assignment, outcome>>

Extract ==
    /\ pc = "extract"
    /\ LET k == FirstFailure(jm_users, slots, assignment, status, value)
           done == IF k = 0 THEN jm_users ELSE SubSeq(jm_users, 1, k - 1)
       IN  /\ final_assignment' =
                [u \in Ids(done) |->
                    CHOOSE s \in MatchedSlotIds(slots, assignment, value, u) : TRUE]
           /\ outcome' = IF k = 0 THEN "returned"
                         ELSE UserStep(slots, assignment, status, value, jm_users[k])
    /\ pc' = "done"
    /\ UNCHANGED <<jm_users, preferences, slots, config, preference_map,
                   assignment, status, value>>

NextExact == (GetOptimization \/ Solve \/ Extract) /\ UNCHANGED hvars

SpecExact == InitExact /\ [][NextExact]_vars


(***************************************************************************)
(* old-matcher.py: constraints                                             *)
(***************************************************************************)
\* PreferenceConstraint.is_satisfied
PreferenceIsSatisfied(c, pref) == pref <= c.max_pref

\* CountConstraint.is_match
IsMatch(c, v) == v = c.value

\* CountConstraint.is_satisfied (JMCountConstraint inherits it)
CountIsSatisfied(c, count) == c.min_count <= count /\ count <= c.max_count

\* CountConstraint.can_be_satisfied
CountCanBeSatisfied(c, count, availability) == count + availability >= c.min_count

\* JMCountConstraint.can_be_satisfied
JMCountCanBeSatisfied(c, count, availability) == count + availability = c.max_count

Abs(n) == IF n < 0 THEN 0 - n ELSE n

\* DifferenceConstraint.is_satisfied
DifferenceIsSatisfied(c, val1, val2) == Abs(val1 - val2) <= c.max_diff

(***************************************************************************)
(* old-matcher.py: lists                                                   *)
(***************************************************************************)
\* x in list
Member(list, x) == \E i \in DOMAIN list : list[i] = x

\* list.remove(x) on a list that holds x: the first occurrence goes
RemoveFirst(list, x) ==
    LET i == CHOOSE k \in DOMAIN list :
                 list[k] = x /\ \A m \in 1..(k - 1) : list[m] # x
    IN  SubSeq(list, 1, i - 1) \o SubSeq(list, i + 1, Len(list))

\* for x in xs: list.remove(x)
RECURSIVE RemoveEach(_, _)
RemoveEach(list, xs) ==
    IF xs = <<>> THEN list ELSE RemoveEach(RemoveFirst(list, Head(xs)), Tail(xs))

\* list(filter(lambda j: j is not jm, jms))
Without(jms, jm) == SelectSeq(jms, LAMBDA j : j # jm)

\* list(map(lambda j: jm_incoming if j is jm_outgoing else j, jms))
WithSwapped(jms, jm_outgoing, jm_incoming) ==
    [i \in DOMAIN jms |-> IF jms[i] = jm_outgoing THEN jm_incoming ELSE jms[i]]

(***************************************************************************)
(* old-matcher.py: Family, constraint satisfaction.  f is the index of the *)
(* family in FamilyMatcher.families, fam its record [jms, status].         *)
(***************************************************************************)
HasPreference == preference_constraints # <<>>
HasCount == count_constraints # <<>>
HasDifference == difference_constraints # <<>>

\* sum([constraint.is_match(j.get_datavalue(dv.header).value) for j in jms])
CountOf(jms) ==
    Cardinality({i \in DOMAIN jms :
                    IsMatch(count_constraints[1], jm_data[jms[i]].gender)})

\* dv.value[sm_dv.value] raises KeyError when the JM's sheet has no column
\* for the family's option
LookupRaises(f, jm) ==
    HasPreference /\ sm_data[f].option \notin DOMAIN jm_data[jm].pref

\* The preference and difference entries of `compatible` for one JM
PairCompatible(f, jm) ==
    /\ HasPreference =>
          PreferenceIsSatisfied(preference_constraints[1],
                                jm_data[jm].pref[sm_data[f].option])
    /\ HasDifference =>
          DifferenceIsSatisfied(difference_constraints[1],
                                sm_data[f].social, jm_data[jm].social)

\* Family.get_availability
GetAvailability(fam) == jm_count_constraint.max_count - Len(fam.jms)

\* The remaining room without the floor at 0
Max0_signed(n) == n

Max0(n) == IF n > 0 THEN n ELSE 0

\* Family.jm_steal_check
JmStealCheck(f, jm, jms) ==
    /\ PairCompatible(f, jm)
    /\ HasCount => CountIsSatisfied(count_constraints[1], CountOf(jms))

\* A jm_swap_check that asks of every family only what it asks of an
\* INCOMPLETE one
JmSwapCheck_reachable(f, fam, jm, jms) ==
    /\ JMCountCanBeSatisfied(jm_count_constraint, Len(fam.jms), GetAvailability(fam))
    /\ PairCompatible(f, jm)
    /\ HasCount =>
          CountCanBeSatisfied(count_constraints[1], CountOf(jms),
                              GetAvailability(fam))

\* Family.jm_swap_check
JmSwapCheck(f, fam, jm, jms) ==
    /\ JMCountCanBeSatisfied(jm_count_constraint, Len(fam.jms), GetAvailability(fam))
    /\ PairCompatible(f, jm)
    /\ HasCount =>
          IF fam.status = "COMPLETE"
          THEN CountIsSatisfied(count_constraints[1], CountOf(jms))
          ELSE CountCanBeSatisfied(count_constraints[1], CountOf(jms),
                                   GetAvailability(fam))

\* A jm_add_check without the preference and difference tests
JmAddCheck_nopair(f, fam, jm) ==
    /\ JMCountCanBeSatisfied(jm_count_constraint, Len(fam.jms) + 1,
                             Max0(GetAvailability(fam) - 1))
    /\ HasCount =>
          CountCanBeSatisfied(count_constraints[1],
                              CountOf(fam.jms) + CountOf(<<jm>>),
                              Max0(GetAvailability(fam) - 1))

\* Family.jm_add_check
JmAddCheck(f, fam, jm) ==
    /\ JMCountCanBeSatisfied(jm_count_constraint, Len(fam.jms) + 1,
                             Max0(GetAvailability(fam) - 1))
    /\ PairCompatible(f, jm)
    /\ HasCount =>
          CountCanBeSatisfied(count_constraints[1],
                              CountOf(fam.jms) + CountOf(<<jm>>),
                              Max0(GetAvailability(fam) - 1))

\* Family.full_check on the member list jms
FullCheck(f, jms) ==
    /\ CountIsSatisfied(jm_count_constraint, Len(jms))
    /\ \A i \in DOMAIN jms :
          /\ PairCompatible(f, jms[i])
          /\ HasCount => CountIsSatisfied(count_constraints[1], CountOf(jms))

\* full_check raises when the lookup of one member raises
FullCheckRaises(f, jms) == \E i \in DOMAIN jms : LookupRaises(f, jms[i])

\* An allow_steal without the test of the size after the removal
AllowSteal_nosize(f, fam, jm) ==
    LET without_jm == Without(fam.jms, jm)
    IN  \A i \in DOMAIN without_jm : JmStealCheck(f, without_jm[i], without_jm)

\* Family.allow_steal
AllowSteal(f, fam, jm) ==
    LET without_jm == Without(fam.jms, jm)
    IN  /\ \A i \in DOMAIN without_jm : JmStealCheck(f, without_jm[i], without_jm)
        /\ CountIsSatisfied(jm_count_constraint, Len(fam.jms) - 1)

\* Family.allow_swap
AllowSwap(f, fam, jm_outgoing, jm_incoming) ==
    LET with_swapped_jms == WithSwapped(fam.jms, jm_outgoing, jm_incoming)
    IN  \A i \in DOMAIN with_swapped_jms :
            JmSwapCheck(f, fam, with_swapped_jms[i], with_swapped_jms)

(***************************************************************************)
(* old-matcher.py: Family, mentor manipulation.  Each operator gives the   *)
(* family after the call and what the call returned: "True", "False", or   *)
(* "raised" when an exception leaves the method.                           *)
(***************************************************************************)
Status(f, jms) == IF FullCheck(f, jms) THEN "COMPLETE" ELSE "INCOMPLETE"

\* Family.update_status on the member list jms; old is the status before
UpdateStatus(f, jms, old, returned) ==
    IF FullCheckRaises(f, jms)
    THEN [fam |-> [jms |-> jms, status |-> old], ret |-> "raised"]
    ELSE [fam |-> [jms |-> jms, status |-> Status(f, jms)], ret |-> returned]

\* Family.add_jm
AddJm(f, fam, jm) ==
    LET appended == Append(fam.jms, jm)
    IN  IF ~FullCheckRaises(f, appended)
        THEN UpdateStatus(f, appended, fam.status, "True")
        ELSE \* except: if jm in self.jms: self.jms.remove(jm)
             UpdateStatus(f, RemoveFirst(appended, jm), fam.status, "False")

\* The except branch of swap_jm on the list jms
SwapRollback(jms, jm_outgoing, jm_incoming) ==
    LET a == IF ~Member(jms, jm_outgoing) THEN Append(jms, jm_outgoing) ELSE jms
    IN  IF Member(a, jm_incoming) THEN RemoveFirst(a, jm_incoming) ELSE a

\* Family.swap_jm
SwapJm(f, fam, jm_outgoing, jm_incoming) ==
    IF ~Member(fam.jms, jm_outgoing)
    THEN \* self.jms.remove raises ValueError
         UpdateStatus(f, SwapRollback(fam.jms, jm_outgoing, jm_incoming),
                      fam.status, "False")
    ELSE LET swapped == Append(RemoveFirst(fam.jms, jm_outgoing), jm_incoming)
         IN  IF ~FullCheckRaises(f, swapped)
             THEN UpdateStatus(f, swapped, fam.status, "True")
             ELSE UpdateStatus(f, SwapRollback(swapped, jm_outgoing, jm_incoming),
                               fam.status, "False")

\* The except branch of remove_jm on the list jms
RemoveRollback(jms, jm) == IF ~Member(jms, jm) THEN Append(jms, jm) ELSE jms

\* A remove_jm that drops the last member instead of jm
RemoveJm_last(f, fam, jm) ==
    IF ~Member(fam.jms, jm)
    THEN UpdateStatus(f, RemoveRollback(fam.jms, jm), fam.status, "False")
    ELSE UpdateStatus(f, SubSeq(fam.jms, 1, Len(fam.jms) - 1), fam.status, "True")

\* Family.remove_jm
RemoveJm(f, fam, jm) ==
    IF ~Member(fam.jms, jm)
    THEN \* self.jms.remove raises ValueError
         UpdateStatus(f, RemoveRollback(fam.jms, jm), fam.status, "False")
    ELSE LET removed == RemoveFirst(fam.jms, jm)
         IN  IF ~FullCheckRaises(f, removed)
             THEN UpdateStatus(f, removed, fam.status, "True")
             ELSE UpdateStatus(f, RemoveRollback(removed, jm), fam.status, "False")

\* The last element where the scan takes the first
SetMin_last(S) == CHOOSE x \in S : \A y \in S : y <= x

(***************************************************************************)
(* old-matcher.py: FamilyMatcher.  fams is FamilyMatcher.families (the     *)
(* family records in list order), stray is FamilyMatcher.stray_jms;        *)
(* incomplete_families and complete_families hold family indices.         *)
(***************************************************************************)
SetMin(S) == CHOOSE x \in S : \A y \in S : x <= y

\* The loop of assign_perfect_fits over stray_jms from position k on
RECURSIVE AssignLoop(_, _, _, _)
AssignLoop(fams, stray, k, assigned) ==
    IF k > Len(stray) THEN [families |-> fams, assigned |-> assigned]
    ELSE LET jm == stray[k]
             fits == {f \in DOMAIN fams : JmAddCheck(f, fams[f], jm)}
         IN  IF fits = {} THEN AssignLoop(fams, stray, k + 1, assigned)
             ELSE LET f == SetMin(fits)
                  IN  AssignLoop([fams EXCEPT ![f] = AddJm(f, fams[f], jm).fam],
                                 stray, k + 1, Append(assigned, jm))

\* An assign_perfect_fits that looks at the first stray JM only
AssignPerfectFits_first(fams, stray) ==
    LET r == AssignLoop(fams, IF stray = <<>> THEN <<>> ELSE <<stray[1]>>, 1, <<>>)
    IN  [families |-> r.families, stray_jms |-> RemoveEach(stray, r.assigned)]

\* FamilyMatcher.assign_perfect_fits
AssignPerfectFits(fams, stray) ==
    LET r == AssignLoop(fams, stray, 1, <<>>)
    IN  [families |-> r.families, stray_jms |-> RemoveEach(stray, r.assigned)]

\* FamilyMatcher.split_families_by_status
SplitFamiliesByStatus(fams) ==
    LET all == [i \in DOMAIN fams |-> i]
    IN  [incomplete |-> SelectSeq(all, LAMBDA f : fams[f].status # "COMPLETE"),
         complete |-> SelectSeq(all, LAMBDA f : fams[f].status = "COMPLETE")]

\* A promotion that leaves the promoted families in the incomplete list
PromoteFamiliesByStatus_keep(fams, incomplete, complete) ==
    [incomplete |-> incomplete,
     complete |-> complete \o SelectSeq(incomplete,
                                        LAMBDA f : fams[f].status = "COMPLETE")]

\* FamilyMatcher.promote_families_by_status
PromoteFamiliesByStatus(fams, incomplete, complete) ==
    LET promoted == SelectSeq(incomplete, LAMBDA f : fams[f].status = "COMPLETE")
    IN  [incomplete |-> RemoveEach(incomplete, promoted),
         complete |-> complete \o promoted]

\* perfect_stray_adds: the loop over stray_jms for the family of index f
RECURSIVE StrayAddLoop(_, _, _, _, _)
StrayAddLoop(f, fam, stray, k, assigned) ==
    IF k > Len(stray) THEN [fam |-> fam, assigned |-> assigned]
    ELSE LET jm == stray[k]
         IN  IF /\ ~CountIsSatisfied(jm_count_constraint, Len(fam.jms))
                /\ JmAddCheck(f, fam, jm)
             THEN StrayAddLoop(f, AddJm(f, fam, jm).fam, stray, k + 1,
                               Append(assigned, jm))
             ELSE StrayAddLoop(f, fam, stray, k + 1, assigned)

\* perfect_stray_adds: the loop over incomplete_families from position n on
RECURSIVE StrayAddFamilies(_, _, _, _)
StrayAddFamilies(fams, stray, incomplete, n) ==
    IF n > Len(incomplete) THEN [families |-> fams, stray_jms |-> stray]
    ELSE LET f == incomplete[n]
             r == StrayAddLoop(f, fams[f], stray, 1, <<>>)
         IN  StrayAddFamilies([fams EXCEPT ![f] = r.fam],
                              RemoveEach(stray, r.assigned), incomplete, n + 1)

\* FamilyMatcher.perfect_stray_adds, before the promotion
PerfectStrayAdds(fams, stray, incomplete) ==
    StrayAddFamilies(fams, stray, incomplete, 1)

\* perfect_steals: the positions in c.jms of the JMs family i may steal
StealCandidates(fams, i, c) ==
    {k \in DOMAIN fams[c].jms :
        /\ ~CountIsSatisfied(jm_count_constraint, Len(fams[i].jms))
        /\ JmAddCheck(i, fams[i], fams[c].jms[k])
        /\ AllowSteal(c, fams[c], fams[c].jms[k])}

\* A steal that leaves the JM with the donor
Steal_keep(fams, i, c, stolen) ==
    [fams EXCEPT ![i] = AddJm(i, fams[i], stolen).fam]

\* i.add_jm(stolen); c.remove_jm(stolen)
Steal(fams, i, c, stolen) ==
    LET added == [fams EXCEPT ![i] = AddJm(i, fams[i], stolen).fam]
    IN  [added EXCEPT ![c] = RemoveJm(c, added[c], stolen).fam]

\* perfect_steals: the loop of family i over complete_families from position
\* m on, left at the first steal
RECURSIVE StealLoop(_, _, _, _)
StealLoop(fams, i, complete, m) ==
    IF m > Len(complete) THEN fams
    ELSE LET c == complete[m]
             cand == StealCandidates(fams, i, c)
         IN  IF cand = {} THEN StealLoop(fams, i, complete, m + 1)
             ELSE Steal(fams, i, c, fams[c].jms[SetMin(cand)])

RECURSIVE StealFamilies(_, _, _, _)
StealFamilies(fams, incomplete, complete, n) ==
    IF n > Len(incomplete) THEN fams
    ELSE StealFamilies(StealLoop(fams, incomplete[n], complete, 1),
                       incomplete, complete, n + 1)

\* FamilyMatcher.perfect_steals, before the promotion
PerfectSteals(fams, incomplete, complete) ==
    StealFamilies(fams, incomplete, complete, 1)

\* perfect_swaps: the pairs of positions (in i.jms, in f.jms) both families
\* allow to swap
SwapCandidates(fams, i, f) ==
    {p \in (DOMAIN fams[i].jms) \X (DOMAIN fams[f].jms) :
        /\ AllowSwap(i, fams[i], fams[i].jms[p[1]], fams[f].jms[p[2]])
        /\ AllowSwap(f, fams[f], fams[f].jms[p[2]], fams[i].jms[p[1]])}

\* The first pair in the order of the nested loops
FirstPair(S) ==
    CHOOSE p \in S : \A q \in S : p[1] < q[1] \/ (p[1] = q[1] /\ p[2] <= q[2])

\* i.swap_jm(swap_this, swap_other); f.swap_jm(swap_other, swap_this)
Swap(fams, i, f, swap_this, swap_other) ==
    LET first == [fams EXCEPT ![i] = SwapJm(i, fams[i], swap_this, swap_other).fam]
    IN  [first EXCEPT ![f] = SwapJm(f, first[f], swap_other, swap_this).fam]

\* perfect_swaps: the loop of family i over self.families from position f on
RECURSIVE SwapLoop(_, _, _)
SwapLoop(fams, i, f) ==
    IF f > Len(fams) THEN fams
    ELSE LET cand == SwapCandidates(fams, i, f)
         IN  IF cand = {} THEN SwapLoop(fams, i, f + 1)
             ELSE LET p == FirstPair(cand)
                  IN  SwapLoop(Swap(fams, i, f, fams[i].jms[p[1]], fams[f].jms[p[2]]),
                               i, f + 1)

RECURSIVE SwapFamilies(_, _, _)
SwapFamilies(fams, incomplete, n) ==
    IF n > Len(incomplete) THEN fams
    ELSE SwapFamilies(SwapLoop(fams, incomplete[n], 1), incomplete, n + 1)

\* FamilyMatcher.perfect_swaps, before the promotion
PerfectSwaps(fams, incomplete) == SwapFamilies(fams, incomplete, 1)

\* A stray_swap that keeps the JM given to the family in the stray list
StraySwap_keep(stray, jm_from_family, jm_to_family) ==
    Append(stray, jm_from_family)

\* FamilyMatcher.stray_swap
StraySwap(stray, jm_from_family, jm_to_family) ==
    Append(RemoveFirst(stray, jm_to_family), jm_from_family)

\* perfect_stray_swaps: the pairs of positions (in f.jms, in stray_jms) the
\* family allows to swap
StraySwapCandidates(fams, stray, f) ==
    {p \in (DOMAIN fams[f].jms) \X (DOMAIN stray) :
        AllowSwap(f, fams[f], fams[f].jms[p[1]], stray[p[2]])}

\* perfect_stray_swaps: the loop over self.families from position f on
RECURSIVE StraySwapLoop(_, _, _)
StraySwapLoop(fams, stray, f) ==
    IF f > Len(fams) THEN [families |-> fams, stray_jms |-> stray]
    ELSE LET cand == StraySwapCandidates(fams, stray, f)
         IN  IF cand = {} THEN StraySwapLoop(fams, stray, f + 1)
             ELSE LET p == FirstPair(cand)
                      swap_family == fams[f].jms[p[1]]
                      swap_stray == stray[p[2]]
                  IN  StraySwapLoop(
                          [fams EXCEPT ![f] =
                              SwapJm(f, fams[f], swap_family, swap_stray).fam],
                          StraySwap(stray, swap_family, swap_stray), f + 1)

\* FamilyMatcher.perfect_stray_swaps, before the promotion
PerfectStraySwaps(fams, stray) == StraySwapLoop(fams, stray, 1)

(***************************************************************************)
(* Inputs of the heuristic matcher: the constraints of the INPUTS/OUTPUTS  *)
(* section and the loaded sheets.  JMs are numbered in the order of the    *)
(* JM sheet, families in the order of the SM sheet.                        *)
(***************************************************************************)
JMs == 1..NumJMs
Families == 1..NumFamilies
Options == 1..NumFamilies
Genders == {"Female", "Male"}

JMCountConstraint(min_count, max_count) ==
    [min_count |-> min_count, max_count |-> max_count]
PreferenceConstraint(max_pref) == [max_pref |-> max_pref]
CountConstraint(v, min_count, max_count) ==
    [value |-> v, min_count |-> min_count, max_count |-> max_count]
DifferenceConstraint(max_diff) == [max_diff |-> max_diff]

\* JM.load_data: the preference dict (option -> rating), the value of the
\* count header, the value of the difference header
JM(pref, gender, social) == [pref |-> pref, gender |-> gender, social |-> social]
\* SMs.load_data: the option of the preference header, the difference value
SMs(option, social) == [option |-> option, social |-> social]

Input(jcc, pcs, ccs, dcs, jd, sd) ==
    [jm_count_constraint |-> jcc, preference_constraints |-> pcs,
     count_constraints |-> ccs, difference_constraints |-> dcs,
     jm_data |-> jd, sm_data |-> sd]

\* The family size ranges drawn
SizeRanges ==
    {JMCountConstraint(p[1], p[2]) :
        p \in {q \in (0..MaxCount) \X (1..MaxCount) : q[1] <= q[2]}}

\* Sheets that lack a rating for an option are drawn with this set of columns
Blank == {}

\* Every family has its own option and every JM rates every option
\* MaxPref..MaxPref+1 against max_pref = MaxPref; no count constraint
PreferenceInputs ==
    {Input(jcc, <<PreferenceConstraint(MaxPref)>>, <<>>, <<>>,
           [j \in JMs |-> JM(r[j], "Female", 1)],
           [f \in Families |-> SMs(f, 1)]) :
        jcc \in SizeRanges,
        r \in [JMs -> [Options -> MaxPref..(MaxPref + 1)]]}

\* A count constraint on "Female" with every gender column; a JM rates all
\* options alike or only the first one within max_pref
CountInputs ==
    {Input(jcc, <<PreferenceConstraint(MaxPref)>>,
           <<CountConstraint("Female", 1, 1)>>, <<>>,
           [j \in JMs |-> JM([o \in Options |->
                                 IF o = 1 \/ all[j] THEN MaxPref ELSE MaxPref + 1],
                             g[j], 1)],
           [f \in Families |-> SMs(f, 1)]) :
        jcc \in SizeRanges,
        all \in [JMs -> BOOLEAN],
        g \in [JMs -> Genders]}

\* A difference constraint alone: family f has the value f, every JM a value
\* of some family, and max_diff = 0
DifferenceInputs ==
    {Input(jcc, <<>>, <<>>, <<DifferenceConstraint(0)>>,
           [j \in JMs |-> JM([o \in Options |-> MaxPref], "Female", v[j])],
           [f \in Families |-> SMs(f, f)]) :
        jcc \in SizeRanges,
        v \in [JMs -> Families]}

GeneralInputs == PreferenceInputs \cup CountInputs \cup DifferenceInputs

\* One family of option 1; a JM rates the option MaxPref or MaxPref + 1 or
\* has no rating for it (then reading the rating raises)
FamilyInputs ==
    {Input(jcc, <<PreferenceConstraint(MaxPref)>>, ccs, <<>>,
           [j \in JMs |-> JM(IF r[j] = 0 THEN [o \in Blank |-> 0]
                                         ELSE [o \in {1} |-> r[j]],
                             IF j \in fem THEN "Female" ELSE "Male", 1)],
           <<SMs(1, 1)>>) :
        jcc \in SizeRanges,
        ccs \in {<<>>, <<CountConstraint("Female", 1, 1)>>},
        r \in [JMs -> {0, MaxPref, MaxPref + 1}],
        fem \in {JMs, {1}}}

Family(jms, st) == [jms |-> jms, status |-> st]

\* A call of a Family method: its name, its arguments and the family it was
\* made on
Call(method, args, fam) == [method |-> method, args |-> args, fam |-> fam]

(***************************************************************************)
(* Actions of the heuristic matcher: FamilyMatcher.iterate, step by step   *)
(***************************************************************************)
\* load_sms, load_jms: every family empty and INCOMPLETE, every JM stray
InitMatcher(inputs) ==
    \E inp \in inputs :
        /\ jm_count_constraint = inp.jm_count_constraint
        /\ preference_constraints = inp.preference_constraints
        /\ count_constraints = inp.count_constraints
        /\ difference_constraints = inp.difference_constraints
        /\ jm_data = inp.jm_data
        /\ sm_data = inp.sm_data
        /\ families = [f \in DOMAIN inp.sm_data |-> Family(<<>>, "INCOMPLETE")]
        /\ stray_jms = [j \in DOMAIN inp.jm_data |-> j]
        /\ incomplete_families = <<>>
        /\ complete_families = <<>>
        /\ step = "assign_perfect_fits"
        /\ iters = 0
        /\ call = Call("load", <<>>, Family(<<>>, "INCOMPLETE"))
        /\ ret = "none"

\* No step of iterate touches the constraints, the sheets or the exact solver
SheetsUnchanged ==
    /\ UNCHANGED <<jm_count_constraint, preference_constraints, count_constraints,
                   difference_constraints, jm_data, sm_data, call, ret>>
    /\ UNCHANGED xvars

StepAssignPerfectFits ==
    /\ SheetsUnchanged
    /\ step = "assign_perfect_fits"
    /\ LET r == AssignPerfectFits(families, stray_jms)
       IN  families' = r.families /\ stray_jms' = r.stray_jms
    /\ step' = "split_families_by_status"
    /\ UNCHANGED <<incomplete_families, complete_families, iters>>

StepSplitFamiliesByStatus ==
    /\ SheetsUnchanged
    /\ step = "split_families_by_status"
    /\ LET r == SplitFamiliesByStatus(families)
       IN  incomplete_families' = r.incomplete /\ complete_families' = r.complete
    /\ step' = "perfect_stray_adds"
    /\ UNCHANGED <<families, stray_jms, iters>>

StepPerfectStrayAdds ==
    /\ SheetsUnchanged
    /\ step = "perfect_stray_adds"
    /\ LET r == PerfectStrayAdds(families, stray_jms, incomplete_families)
           p == PromoteFamiliesByStatus(r.families, incomplete_families,
                                        complete_families)
       IN  /\ families' = r.families /\ stray_jms' = r.stray_jms
           /\ incomplete_families' = p.incomplete /\ complete_families' = p.complete
    /\ step' = "perfect_steals"
    /\ UNCHANGED iters

StepPerfectSteals ==
    /\ SheetsUnchanged
    /\ step = "perfect_steals"
    /\ LET fams == PerfectSteals(families, incomplete_families, complete_families)
           p == PromoteFamiliesByStatus(fams, incomplete_families, complete_families)
       IN  /\ families' = fams
           /\ incomplete_families' = p.incomplete /\ complete_families' = p.complete
    /\ step' = "perfect_swaps"
    /\ UNCHANGED <<stray_jms, iters>>

StepPerfectSwaps ==
    /\ SheetsUnchanged
    /\ step = "perfect_swaps"
    /\ LET fams == PerfectSwaps(families, incomplete_families)
           p == PromoteFamiliesByStatus(fams, incomplete_families, complete_families)
       IN  /\ families' = fams
           /\ incomplete_families' = p.incomplete /\ complete_families' = p.complete
    /\ step' = "perfect_stray_swaps"
    /\ UNCHANGED <<stray_jms, iters>>

\* A last step that leaves the loop as soon as no JM is stray
StepPerfectStraySwaps_early ==
    /\ SheetsUnchanged
    /\ step = "perfect_stray_swaps"
    /\ LET r == PerfectStraySwaps(families, stray_jms)
           p == PromoteFamiliesByStatus(r.families, incomplete_families,
                                        complete_families)
       IN  /\ families' = r.families /\ stray_jms' = r.stray_jms
           /\ incomplete_families' = p.incomplete /\ complete_families' = p.complete
    /\ iters' = iters + 1
    /\ step' = IF iters + 1 < MAX_ITERS /\ stray_jms # <<>>
               THEN "assign_perfect_fits" ELSE "done"

\* The last step of a pass; iterate returns after MAX_ITERS passes
StepPerfectStraySwaps ==
    /\ SheetsUnchanged
    /\ step = "perfect_stray_swaps"
    /\ LET r == PerfectStraySwaps(families, stray_jms)
           p == PromoteFamiliesByStatus(r.families, incomplete_families,
                                        complete_families)
       IN  /\ families' = r.families /\ stray_jms' = r.stray_jms
           /\ incomplete_families' = p.incomplete /\ complete_families' = p.complete
    /\ iters' = iters + 1
    /\ step' = IF iters + 1 < MAX_ITERS THEN "assign_perfect_fits" ELSE "done"

\* FamilyMatcher.iterate
Iterate ==
    \/ StepAssignPerfectFits
    \/ StepSplitFamiliesByStatus
    \/ StepPerfectStrayAdds
    \/ StepPerfectSteals
    \/ StepPerfectSwaps
    \/ StepPerfectStraySwaps

\* run_matcher is not called
ExactIdle ==
    /\ jm_users = <<>>
    /\ preferences = <<>>
    /\ slots = <<>>
    /\ config = [min_family_size |-> 0, max_family_size |-> 0]
    /\ preference_map = Emp
    /\ assignment = Emp
    /\ status = "unsolved"
    /\ value = Emp
    /\ final_assignment = Emp
    /\ pc = "idle"
    /\ outcome = "idle"

(***************************************************************************)
(* Actions on one Family: a caller constructs the family and calls its     *)
(* mentor manipulation methods with any JMs, members or not.  The caller   *)
(* stops at the first exception that leaves a method.                      *)
(***************************************************************************)
InitFamily ==
    /\ ExactIdle
    /\ \E inp \in FamilyInputs :
        /\ jm_count_constraint = inp.jm_count_constraint
        /\ preference_constraints = inp.preference_constraints
        /\ count_constraints = inp.count_constraints
        /\ difference_constraints = inp.difference_constraints
        /\ jm_data = inp.jm_data
        /\ sm_data = inp.sm_data
    \* Family.__init__
    /\ families = <<Family(<<>>, "INCOMPLETE")>>
    /\ stray_jms = <<>>
    /\ incomplete_families = <<>>
    /\ complete_families = <<>>
    /\ step = "family"
    /\ iters = 0
    /\ call = Call("__init__", <<>>, Family(<<>>, "INCOMPLETE"))
    /\ ret = "none"

\* The family after a call and what the call returned
Returns(method, args, r) ==
    /\ ret # "raised"
    /\ Len(r.fam.jms) <= MaxLen
    /\ call' = Call(method, args, families[1])
    /\ families' = <<r.fam>>
    /\ ret' = r.ret
    /\ UNCHANGED <<jm_count_constraint, preference_constraints, count_constraints,
                   difference_constraints, jm_data, sm_data, stray_jms,
                   incomplete_families, complete_families, step, iters>>
    /\ UNCHANGED xvars

CallAddJm == \E jm \in JMs : Returns("add_jm", <<jm>>, AddJm(1, families[1], jm))

CallRemoveJm ==
    \E jm \in JMs : Returns("remove_jm", <<jm>>, RemoveJm(1, families[1], jm))

CallSwapJm ==
    \E jm_outgoing \in JMs, jm_incoming \in JMs :
        Returns("swap_jm", <<jm_outgoing, jm_incoming>>,
                SwapJm(1, families[1], jm_outgoing, jm_incoming))

CallUpdateStatus ==
    Returns("update_status", <<>>,
            UpdateStatus(1, families[1].jms, families[1].status, "None"))

NextFamily == CallAddJm \/ CallRemoveJm \/ CallSwapJm \/ CallUpdateStatus

SpecFamily == InitFamily /\ [][NextFamily]_vars

InitHeur == ExactIdle /\ InitMatcher(GeneralInputs)

SpecHeur == InitHeur /\ [][Iterate]_vars

(***************************************************************************)
(* The heuristic matcher on sheets whose ratings include 0                 *)
(***************************************************************************)
\* Every JM rates every option 0..MaxPref+1 against max_pref = MaxPref; the
\* family size range is [1, MaxCount]
RankInputs ==
    {Input(JMCountConstraint(1, MaxCount), <<PreferenceConstraint(MaxPref)>>,
           <<>>, <<>>,
           [j \in JMs |-> JM(r[j], "Female", 1)],
           [f \in Families |-> SMs(f, 1)]) :
        r \in [JMs -> [Options -> 0..(MaxPref + 1)]]}

InitRank == ExactIdle /\ InitMatcher(RankInputs)

SpecRank == InitRank /\ [][Iterate]_vars

(***************************************************************************)
(* iterate is one sequential loop and every step of it a finite scan of    *)
(* the family and stray lists: as long as iterate has not returned, the    *)
(* step that is due is taken and the loop moves on to another step.        *)
(***************************************************************************)
StepNames ==
    {"assign_perfect_fits", "split_families_by_status", "perfect_stray_adds",
     "perfect_steals", "perfect_swaps", "perfect_stray_swaps", "done"}

IterateProceeds == step # "done" /\ step' \in StepNames \ {step}

SpecHeurLive == SpecHeur /\ WF_step(IterateProceeds)

(***************************************************************************)
(* The heuristic matcher on one family of size range [n, n] with a count   *)
(* constraint [k, k] on "Female"                                           *)
(***************************************************************************)
\* Every JM rates the family's option MaxPref or MaxPref + 1 against
\* max_pref = MaxPref and has either gender
ExactCountInputs ==
    {Input(JMCountConstraint(nk[1], nk[1]), <<PreferenceConstraint(MaxPref)>>,
           <<CountConstraint("Female", nk[2], nk[2])>>, <<>>,
           [j \in JMs |-> JM([o \in {1} |-> r[j]], g[j], 1)],
           <<SMs(1, 1)>>) :
        nk \in {p \in (1..MaxCount) \X (0..MaxCount) : p[2] <= p[1]},
        r \in [JMs -> MaxPref..(MaxPref + 1)],
        g \in [JMs -> Genders]}

InitExactCount == ExactIdle /\ InitMatcher(ExactCountInputs)

SpecExactCount == InitExactCount /\ [][Iterate]_vars

(***************************************************************************)
(* One family more than in the general inputs, families of 1 to            *)
(* MaxCount + 1 members and a preference constraint alone, so that several *)
(* INCOMPLETE families scan one COMPLETE family in a steal pass.           *)
(***************************************************************************)
StealInputs ==
    {Input(JMCountConstraint(1, MaxCount + 1), <<PreferenceConstraint(MaxPref)>>,
           <<>>, <<>>,
           [j \in JMs |-> JM(r[j], "Female", 1)],
           [f \in 1..(NumFamilies + 1) |-> SMs(f, 1)]) :
        r \in [JMs -> [1..(NumFamilies + 1) -> MaxPref..(MaxPref + 1)]]}

InitSteals == ExactIdle /\ InitMatcher(StealInputs)

SpecSteals == InitSteals /\ [][Iterate]_vars

(***************************************************************************)
(* The family-size constraint alone: no preference, count or difference    *)
(* constraint, 1 to NumFamilies + 1 families, and a number of JMs that the *)
(* families can hold with every family within [min_count, max_count].      *)
(***************************************************************************)
SizeOnlyInputs ==
    {Input(JMCountConstraint(t[2], t[3]), <<>>, <<>>, <<>>,
           [j \in 1..t[4] |-> JM(<<>>, "Female", 1)],
           [f \in 1..t[1] |-> SMs(f, 1)]) :
        t \in {u \in (1..(NumFamilies + 1)) \X (0..(MaxCount + 1))
                     \X (1..(MaxCount + 1)) \X (0..(NumJMs + 2)) :
                  /\ u[2] <= u[3]
                  /\ u[1] * u[2] <= u[4]
                  /\ u[4] <= u[1] * u[3]}}

InitSizeOnly == ExactIdle /\ InitMatcher(SizeOnlyInputs)

SpecSizeOnly == InitSizeOnly /\ [][Iterate]_vars

(***************************************************************************)
(* main.py: main shuffles the users and the preferences before it calls    *)
(* run_matcher.                                                            *)
(***************************************************************************)
\* The orders random.shuffle can leave a list in
Shuffles(list) ==
    {[i \in DOMAIN list |-> list[p[i]]] : p \in Permutations(DOMAIN list)}

\* The preference lists parse_jm_preferences builds for a rank table, with
\* or without a second entry for the first pair
ShuffledPrefLists(us, sl) ==
    LET pairs == PairSeq(Ids(us), sl, 1)
        P == {pairs[i] : i \in DOMAIN pairs}
    IN  {EntriesOf(r, pairs) \o x :
            r \in [P -> 0..MaxRank],
            x \in {<<>>, <<Entry(us[1], sl[1], MaxRank)>>}}

InitMain ==
    /\ MatcherIdle
    /\ jm_users \in {us \in UserLists : Len(us) <= MaxShuffled}
    /\ slots \in SlotLists
    /\ config \in Configs
    /\ preferences \in ShuffledPrefLists(jm_users, slots)
    /\ preference_map = Emp
    /\ assignment = Emp
    /\ status = "unsolved"
    /\ value = Emp
    /\ final_assignment = Emp
    /\ pc = "shuffle"
    /\ outcome = "running"

\* random.shuffle(users); random.shuffle(preferences)
Shuffle ==
    /\ pc = "shuffle"
    /\ jm_users' \in Shuffles(jm_users)
    /\ preferences' \in Shuffles(preferences)
    /\ pc' = "get_optimization"
    /\ UNCHANGED <<slots, config, preference_map, assignment, status, value,
                   final_assignment, outcome>>

NextMain == (Shuffle \/ GetOptimization \/ Solve \/ Extract) /\ UNCHANGED hvars

SpecMain == InitMain /\ [][NextMain]_vars

(***************************************************************************)
(* Properties of the exact solver                                          *)
(***************************************************************************)
Returned == pc = "done" /\ outcome = "returned"

\* The rank the preference list records for a pair: the value of the pair's
\* last entry, 0 when the list has no entry for it
RankOf(u, s) ==
    LET is == {i \in DOMAIN preferences : KeyOf(preferences[i]) = <<u, s>>}
    IN  IF is = {} THEN 0 ELSE preferences[SetMax(is)].value

\* The agents (positions of jm_users) the returned mapping sends to slot s
AgentsMappedTo(s) ==
    {i \in DOMAIN jm_users : final_assignment[jm_users[i]] = s}

DistinctIds == Cardinality(Ids(jm_users)) = Len(jm_users)

\* C1: whenever run_matcher returns a mapping, the mapping has an entry for
\* the id of every input agent and for nothing else, every entry is a slot of
\* the slot list, exactly one Variable of each agent is selected, and on a
\* solved problem the loop's assert never fails (the call returns).
C1_TotalMapping ==
    /\ Returned =>
          /\ DOMAIN final_assignment = Ids(jm_users)
          /\ \A u \in Ids(jm_users) :
                /\ final_assignment[u] \in Ids(slots)
                /\ MatchedSlotIds(slots, assignment, value, u) = {final_assignment[u]}
    /\ (pc = "done" /\ status = "optimal") => outcome = "returned"

C1_Witness ==
    /\ Returned
    /\ Len(jm_users) = 3 /\ DistinctIds
    /\ \A s \in Ids(slots) : AgentsMappedTo(s) # {}
    /\ Len(slots) = 2

\* C2: in every returned mapping, for every slot of the slot list (a slot no
\* agent is eligible for included) the number of input agents mapped to the
\* slot lies in [min_family_size, max_family_size].
C2_FamilySizeInBounds ==
    Returned =>
        \A s \in Ids(slots) :
            /\ config.min_family_size <= Cardinality(AgentsMappedTo(s))
            /\ Cardinality(AgentsMappedTo(s)) <= config.max_family_size

\* a slot without any eligible agent, in a returned mapping of a solve that
\* also fills another slot
C2_Witness ==
    /\ Returned
    /\ Len(slots) = 2
    /\ \A u \in Ids(jm_users) : RankOf(u, 1) <= 0
    /\ Cardinality(AgentsMappedTo(0)) = 2
    /\ AgentsMappedTo(1) = {}

\* C3: in every returned mapping an agent is mapped to a slot only if the
\* preference list records a strictly positive rank for the pair.
C3_OnlyPositiveRank ==
    Returned =>
        \A u \in DOMAIN final_assignment : RankOf(u, final_assignment[u]) > 0

\* a returned mapping of an input with a pair of rank 0 and a pair without
\* an entry
C3_Witness ==
    /\ Returned
    /\ \E i \in DOMAIN preferences : preferences[i].value = 0
    /\ \E u \in Ids(jm_users), s \in Ids(slots) :
          <<u, s>> \notin {KeyOf(preferences[i]) : i \in DOMAIN preferences}

\* The assignments C4 compares with: every agent (position of jm_users) in
\* one slot of the list, for which its rank is > 0, every slot's size within
\* the bounds
Alternatives ==
    {g \in [DOMAIN jm_users -> Ids(slots)] :
        /\ \A i \in DOMAIN jm_users : RankOf(jm_users[i], g[i]) > 0
        /\ \A s \in Ids(slots) :
              LET n == Cardinality({i \in DOMAIN jm_users : g[i] = s})
              IN  config.min_family_size <= n /\ n <= config.max_family_size}

TotalRank(g) ==
    SumOver([i \in DOMAIN jm_users |-> RankOf(jm_users[i], g[i])], DOMAIN jm_users)

MappingOfAgents == [i \in DOMAIN jm_users |-> final_assignment[jm_users[i]]]

\* C4: the returned mapping is optimal: the sum over all agents of the rank
\* of the slot the agent is mapped to is <= that sum of every assignment
\* that places each agent in one eligible slot within the size bounds.
C4_Optimal ==
    Returned => \A g \in Alternatives : TotalRank(MappingOfAgents) <= TotalRank(g)

\* The same with agent identities distinct
C4_OptimalDistinctIds ==
    (Returned /\ DistinctIds) =>
        \A g \in Alternatives : TotalRank(MappingOfAgents) <= TotalRank(g)

\* C5: when no 0/1 point satisfies the constraints, run_matcher ends in an
\* infeasibility error of its own, and never returns a mapping.
C5_InfeasibilityError ==
    (pc = "done" /\ status = "infeasible") => outcome = "InfeasibilityError"

\* What the code does instead: the call ends in a TypeError or an AssertionError
C5_Observed ==
    (pc = "done" /\ status = "infeasible") =>
        /\ outcome \in {"TypeError", "AssertionError"}
        /\ final_assignment = Emp

\* The agent has no strictly positive rank for any slot of the list
NoPositiveRank(u) == \A s \in Ids(slots) : RankOf(u, s) <= 0

\* C6: an agent without a strictly positive rank for any slot has only
\* Constants of value 0 (no decision variable), and no mapping maps it: the
\* call returns none and builds none on the way.
C6_IneligibleAgentUnassigned ==
    \A u \in Ids(jm_users) :
        (NoPositiveRank(u) /\ pc # "get_optimization") =>
            /\ \A s \in Ids(slots) : assignment[<<u, s>>] = "Constant"
            /\ u \notin DOMAIN final_assignment
            /\ outcome # "returned"

\* a finished call on a list with such an agent next to an eligible one
C6_Witness ==
    /\ pc = "done"
    /\ \E u \in Ids(jm_users) : NoPositiveRank(u)
    /\ \E u \in Ids(jm_users) : ~NoPositiveRank(u)

\* The malformed inputs of C7
DuplicateAgent == ~DistinctIds
BadBounds == config.min_family_size > config.max_family_size
UnknownReference ==
    \E i \in DOMAIN preferences :
        \/ preferences[i].user_id \notin Ids(jm_users)
        \/ preferences[i].slot_id \notin Ids(slots)
Malformed == DuplicateAgent \/ BadBounds \/ UnknownReference

\* C7: on a malformed input run_matcher reports a configuration error before
\* the problem is built or solved, and returns no mapping.
C7_ConfigurationError ==
    Malformed => (pc = "get_optimization" \/ outcome = "ConfigurationError")

\* What the code does instead: it returns a mapping for a list with two
\* agents of one identity and for a preference of an unknown agent or slot
C7_ReturnsOnDuplicate == ~(Returned /\ DuplicateAgent)
C7_ReturnsOnUnknown == ~(Returned /\ UnknownReference)
C7_BadBoundsRaise == (pc = "done" /\ BadBounds) => outcome \in {"TypeError", "AssertionError"}


(***************************************************************************)
(* Properties of the heuristic matcher                                     *)
(***************************************************************************)
\* How often the JM j occurs in a list
Occurrences(list, j) == Cardinality({i \in DOMAIN list : list[i] = j})

\* How often the JM j occurs in the families' member lists and the stray list
Placements(j) ==
    SumOver([f \in DOMAIN families |-> Occurrences(families[f].jms, j)],
            DOMAIN families)
    + Occurrences(stray_jms, j)

\* C8: after every step of every pass of FamilyMatcher.iterate every loaded
\* JM occurs exactly once in the families' member lists and the stray list
\* taken together
C8_EveryAgentExactlyOnce == \A j \in DOMAIN jm_data : Placements(j) = 1

\* perfect_steals of the first pass has moved JM 1 into family 2:
\* assign_perfect_fits had put it into family 1, which it fits
C8_Witness ==
    /\ step = "perfect_swaps"
    /\ iters = 0
    /\ count_constraints = <<>>
    /\ PairCompatible(1, 1)
    /\ Member(families[2].jms, 1)
    /\ stray_jms # <<>>

Mutators == {"add_jm", "remove_jm", "swap_jm"}

\* C9: when add_jm, remove_jm or swap_jm returns False, the member list is
\* the list before the call, whether or not the outgoing JM was a member
C9_RejectedCallLeavesMembers ==
    (call.method \in Mutators /\ ret = "False") =>
        families[1].jms = call.fam.jms

\* No JM occurs twice in the list
NoDuplicates(list) == \A j \in JMs : Occurrences(list, j) <= 1

\* On a member list without duplicates, a rejected call whose outgoing JM is
\* a member, and a rejected add_jm of a JM that is not a member, leave the
\* same JMs in the list
C9_RejectedCallOnMember ==
    (/\ call.method \in Mutators
     /\ ret = "False"
     /\ NoDuplicates(call.fam.jms)
     /\ \/ call.method = "add_jm" /\ ~Member(call.fam.jms, call.args[1])
        \/ call.method # "add_jm" /\ Member(call.fam.jms, call.args[1])) =>
        \A j \in JMs : Occurrences(families[1].jms, j) = Occurrences(call.fam.jms, j)

\* The status says what full_check says of the member list
StatusIsFullCheck ==
    \A f \in DOMAIN families :
        families[f].status = "COMPLETE" <=>
            (~FullCheckRaises(f, families[f].jms) /\ FullCheck(f, families[f].jms))

\* C10: between the operations on a family, from its construction onward,
\* the status is COMPLETE exactly when full_check of the member list is
\* true, and update_status called again on the same members changes nothing
C10_StatusPureFunction ==
    /\ []StatusIsFullCheck
    /\ [][(call.method = "update_status" /\ call'.method = "update_status")
             => families' = families]_vars

\* The same once a mentor manipulation method or update_status has returned
C10_StatusAfterReturn ==
    (call.method \in Mutators \cup {"update_status"} /\ ret # "raised") =>
        StatusIsFullCheck

\* The rating the JM j gave the option of family f
Rating(f, j) == jm_data[j].pref[sm_data[f].option]

\* C11: no JM is a member of a family whose option it rated <= 0, and a JM
\* that rated no option > 0 is in the stray list after every pass and when
\* iterate has returned
C11_NoIneligibleMember ==
    /\ \A f \in DOMAIN families :
          \A i \in DOMAIN families[f].jms : Rating(f, families[f].jms[i]) > 0
    /\ \A j \in DOMAIN jm_data :
          ((\A f \in DOMAIN families : Rating(f, j) <= 0)
              /\ step \in {"assign_perfect_fits", "done"})
          => Member(stray_jms, j)

\* The same for the ratings above max_pref: no member rated its family's
\* option higher than max_pref
C11_NoMemberAboveMaxPref ==
    \A f \in DOMAIN families :
        \A i \in DOMAIN families[f].jms :
            Rating(f, families[f].jms[i]) <= preference_constraints[1].max_pref

EligibleJMs ==
    {j \in DOMAIN jm_data : Rating(1, j) <= preference_constraints[1].max_pref}

\* The JMs of the set S with the value the count constraint counts
Matching(S) == {j \in S : jm_data[j].gender = count_constraints[1].value}

\* Some set of n eligible JMs holds exactly k JMs with the counted value
ValidSubsetExists ==
    \E S \in SUBSET EligibleJMs :
        /\ Cardinality(S) = jm_count_constraint.max_count
        /\ Cardinality(Matching(S)) = count_constraints[1].max_count

\* The members of family f as a set
MembersOf(f) == {families[f].jms[i] : i \in DOMAIN families[f].jms}

\* C13: one family of size range [n, n] with a count constraint [k, k]: when
\* iterate has returned the family is COMPLETE with exactly k counted JMs
\* if a valid set of n eligible JMs exists, and INCOMPLETE if none exists
C13_ConvergesOrReports ==
    step = "done" =>
        IF ValidSubsetExists
        THEN /\ families[1].status = "COMPLETE"
             /\ Len(families[1].jms) = jm_count_constraint.max_count
             /\ Cardinality(Matching(MembersOf(1))) = count_constraints[1].max_count
        ELSE families[1].status = "INCOMPLETE"

\* iterate has returned with the family COMPLETE although the first
\* assign_perfect_fits filled it with two counted JMs where one is allowed
C13_Witness ==
    /\ step = "done"
    /\ jm_count_constraint = JMCountConstraint(2, 2)
    /\ count_constraints = <<CountConstraint("Female", 1, 1)>>
    /\ EligibleJMs = JMs
    /\ jm_data[1].gender = "Female" /\ jm_data[2].gender = "Female"
    /\ jm_data[3].gender = "Male"
    /\ families[1].status = "COMPLETE"

\* The list without its element at position i
WithoutPosition(list, i) ==
    [k \in 1..(Len(list) - 1) |-> IF k < i THEN list[k] ELSE list[k + 1]]

\* C14: remove_jm called with a member returns True; the member list is the
\* list before the call without the first occurrence of that JM, the other
\* members in their order, and the status is what full_check says of the new list
C14_RemoveMemberSucceeds ==
    (call.method = "remove_jm" /\ Member(call.fam.jms, call.args[1])) =>
        /\ ret = "True"
        /\ \E i \in DOMAIN call.fam.jms :
              /\ call.fam.jms[i] = call.args[1]
              /\ \A m \in 1..(i - 1) : call.fam.jms[m] # call.args[1]
              /\ families[1].jms = WithoutPosition(call.fam.jms, i)
        /\ NoDuplicates(call.fam.jms) => ~Member(families[1].jms, call.args[1])
        /\ StatusIsFullCheck

\* remove_jm has removed a member that was not the last of three, and the
\* status changed with it
C14_Witness ==
    /\ call.method = "remove_jm"
    /\ ret = "True"
    /\ Len(call.fam.jms) = 3
    /\ call.fam.jms[3] # call.args[1]
    /\ NoDuplicates(call.fam.jms)
    /\ families[1].status # call.fam.status

\* The family fam is below its maximum size and, with the JM jm added and
\* one unit less of room, every count constraint can still reach min_count
HeadroomFor(fam, jm) ==
    /\ Len(fam.jms) < jm_count_constraint.max_count
    /\ HasCount =>
          CountOf(fam.jms) + CountOf(<<jm>>)
              + (jm_count_constraint.max_count - Len(fam.jms) - 1)
          >= count_constraints[1].min_count

\* C15: add_jm makes the JM a member only if the family has the headroom
\* for it; without the headroom the call is rejected and the member list
\* stays as it was
C15_AddOnlyWithHeadroom ==
    (call.method = "add_jm" /\ ~HeadroomFor(call.fam, call.args[1])) =>
        /\ ret # "True"
        /\ families[1].jms = call.fam.jms

\* jm_add_check accepts a JM only for a family with the headroom for it
C15_AddCheckNeedsHeadroom ==
    step = "family" =>
        \A jm \in JMs :
            (~LookupRaises(1, jm) /\ JmAddCheck(1, families[1], jm))
                => HeadroomFor(families[1], jm)

\* What one assign_perfect_fits step appended to the member list of family f
Placed(f) ==
    SubSeq(families'[f].jms, Len(families[f].jms) + 1, Len(families'[f].jms))

\* Family f when the m-th of these JMs was about to be placed in it
BeforePlacement(f, m) ==
    LET jms == families[f].jms \o SubSeq(Placed(f), 1, m - 1)
    IN  Family(jms, IF m = 1 THEN families[f].status ELSE Status(f, jms))

\* C16: a family that is COMPLETE when assign_perfect_fits places a JM in
\* it is COMPLETE after the placement
C16_PlacementKeepsComplete ==
    [][step = "assign_perfect_fits" =>
          \A f \in DOMAIN families :
              \A m \in DOMAIN Placed(f) :
                  BeforePlacement(f, m).status = "COMPLETE" =>
                      Status(f, Append(BeforePlacement(f, m).jms, Placed(f)[m]))
                          = "COMPLETE"]_vars

\* What does hold: the placement never takes a family over max_count
C16_PlacementKeepsSize ==
    [][step = "assign_perfect_fits" =>
          \A f \in DOMAIN families :
              Placed(f) # <<>> =>
                  Len(families'[f].jms) <= jm_count_constraint.max_count]_vars

\* The position of the JM j in the stray list
StrayPosition(j) == CHOOSE k \in DOMAIN stray_jms : stray_jms[k] = j

\* Family f at the moment assign_perfect_fits looks at the stray JM j: its
\* members before the step and the JMs placed in it earlier in the step
AtTurnOf(f, j) ==
    Family(families[f].jms
               \o SelectSeq(Placed(f),
                            LAMBDA x : StrayPosition(x) < StrayPosition(j)),
           families[f].status)

\* The families whose add-check accepts the stray JM j at that moment
AcceptingAtTurnOf(j) ==
    {f \in DOMAIN families : JmAddCheck(f, AtTurnOf(f, j), j)}

\* C17: assign_perfect_fits appends each stray JM, in stray-list order, to
\* the first family in list order whose add-check accepts it given the
\* placements made before its turn, removes the placed JMs from the stray
\* list and leaves the others there in their order
C17_FirstMatch ==
    [][step = "assign_perfect_fits" =>
          /\ \A f \in DOMAIN families :
                /\ Len(families'[f].jms) >= Len(families[f].jms)
                /\ SubSeq(families'[f].jms, 1, Len(families[f].jms)) = families[f].jms
                /\ \A m \in DOMAIN Placed(f) : Member(stray_jms, Placed(f)[m])
                /\ \A m, n \in DOMAIN Placed(f) :
                      m < n => StrayPosition(Placed(f)[m]) < StrayPosition(Placed(f)[n])
          /\ \A k \in DOMAIN stray_jms :
                LET j == stray_jms[k]
                    accepting == AcceptingAtTurnOf(j)
                IN  \A f \in DOMAIN families :
                        Member(Placed(f), j) <=>
                            (accepting # {} /\ \A g \in accepting : f <= g
                                            /\ f \in accepting)
          /\ stray_jms' =
                SelectSeq(stray_jms,
                          LAMBDA j : \A f \in DOMAIN families : ~Member(Placed(f), j))
    ]_vars

\* The first assign_perfect_fits has placed JMs in both families and left
\* one stray
C17_Witness ==
    /\ step = "split_families_by_status"
    /\ iters = 0
    /\ families[1].jms # <<>>
    /\ families[2].jms # <<>>
    /\ stray_jms # <<>>

\* The families as they stand before the steal pass and after the loop of
\* each of the first incomplete families
RECURSIVE DuringSteals(_, _)
DuringSteals(fams, n) ==
    IF n > Len(incomplete_families) THEN {fams}
    ELSE {fams} \cup DuringSteals(StealLoop(fams, incomplete_families[n],
                                            complete_families, 1), n + 1)

\* The donor c passes every constraint on the member list jms
DonorPasses(c, jms) ==
    /\ Len(jms) >= jm_count_constraint.min_count
    /\ Len(jms) <= jm_count_constraint.max_count
    /\ HasCount =>
          /\ CountOf(jms) >= count_constraints[1].min_count
          /\ CountOf(jms) <= count_constraints[1].max_count
    /\ \A m \in DOMAIN jms : PairCompatible(c, jms[m])

\* C18: whenever perfect_steals may take a JM from a donor, the donor without
\* that JM passes every constraint; a donor is COMPLETE before the steal, is
\* COMPLETE after it and keeps at least min_count members
C18_DonorStaysComplete ==
    [][step = "perfect_steals" =>
          /\ \A fams \in DuringSteals(families, 1) :
                \A n \in DOMAIN incomplete_families :
                    \A m \in DOMAIN complete_families :
                        LET i == incomplete_families[n]
                            c == complete_families[m]
                        IN  \A k \in StealCandidates(fams, i, c) :
                                LET after == Steal(fams, i, c, fams[c].jms[k])[c]
                                IN  /\ fams[c].status = "COMPLETE"
                                    /\ after.jms = WithoutPosition(fams[c].jms, k)
                                    /\ DonorPasses(c, after.jms)
                                    /\ after.status = "COMPLETE"
          /\ \A m \in DOMAIN complete_families :
                LET c == complete_families[m]
                IN  /\ DonorPasses(c, families'[c].jms)
                    /\ families'[c].status = "COMPLETE"
    ]_vars

\* The first steal pass has moved JM 1, which the empty family 1 accepted,
\* from family 1 to family 2
C18_Witness ==
    /\ step = "perfect_swaps"
    /\ iters = 0
    /\ families[1].jms = <<2>>
    /\ families[2].jms = <<1>>
    /\ JmAddCheck(1, Family(<<>>, "INCOMPLETE"), 1)

\* C19: in one call of perfect_steals every family of complete_families
\* loses at most one member
C19_DonorLosesAtMostOne ==
    [][step = "perfect_steals" =>
          \A m \in DOMAIN complete_families :
              Len(families'[complete_families[m]].jms)
                  >= Len(families[complete_families[m]].jms) - 1
    ]_vars

\* The first steal pass has taken two JMs from family 1, which held all
\* three after assign_perfect_fits
C19_Witness ==
    /\ step = "perfect_swaps"
    /\ iters = 0
    /\ Len(families) = NumFamilies + 1
    /\ \A j \in JMs : JmAddCheck(1, Family(<<>>, "INCOMPLETE"), j)
    /\ Len(families[1].jms) = 1
    /\ stray_jms = <<>>

\* The pairs (i, f) of families between which the loop of the incomplete
\* family i over self.families, from position f on, commits a swap
RECURSIVE SwapsOfFamily(_, _, _)
SwapsOfFamily(fams, i, f) ==
    IF f > Len(fams) THEN {}
    ELSE LET cand == SwapCandidates(fams, i, f)
         IN  IF cand = {} THEN SwapsOfFamily(fams, i, f + 1)
             ELSE LET p == FirstPair(cand)
                  IN  {<<i, f>>} \cup
                      SwapsOfFamily(Swap(fams, i, f, fams[i].jms[p[1]],
                                         fams[f].jms[p[2]]), i, f + 1)

\* The pairs of families between which the swap pass commits a swap, from
\* position n of incomplete_families on
RECURSIVE CommittedSwaps(_, _)
CommittedSwaps(fams, n) ==
    IF n > Len(incomplete_families) THEN {}
    ELSE SwapsOfFamily(fams, incomplete_families[n], 1) \cup
         CommittedSwaps(SwapLoop(fams, incomplete_families[n], 1), n + 1)

\* C20: every swap that perfect_swaps commits is between two distinct
\* families
C20_NoSelfPairing ==
    step = "perfect_swaps" =>
        \A p \in CommittedSwaps(families, 1) : p[1] # p[2]

\* A swap pass that commits a swap
C20_Witness ==
    /\ step = "perfect_swaps"
    /\ CommittedSwaps(families, 1) # {}

\* An exchange: the families before it, after it, and the families involved
Exchange(before, after, involved) ==
    [before |-> before, after |-> after, involved |-> involved]

\* The swaps that the loop of the incomplete family i over self.families
\* commits from position f on
RECURSIVE ExchangesOfFamily(_, _, _)
ExchangesOfFamily(fams, i, f) ==
    IF f > Len(fams) THEN {}
    ELSE LET cand == SwapCandidates(fams, i, f)
         IN  IF cand = {} THEN ExchangesOfFamily(fams, i, f + 1)
             ELSE LET p == FirstPair(cand)
                      after == Swap(fams, i, f, fams[i].jms[p[1]], fams[f].jms[p[2]])
                  IN  {Exchange(fams, after, {i, f})} \cup
                      ExchangesOfFamily(after, i, f + 1)

\* The swaps that perfect_swaps commits from position n of
\* incomplete_families on
RECURSIVE FamilyExchanges(_, _)
FamilyExchanges(fams, n) ==
    IF n > Len(incomplete_families) THEN {}
    ELSE ExchangesOfFamily(fams, incomplete_families[n], 1) \cup
         FamilyExchanges(SwapLoop(fams, incomplete_families[n], 1), n + 1)

\* The swaps with a stray JM that perfect_stray_swaps commits from family f on
RECURSIVE StrayExchanges(_, _, _)
StrayExchanges(fams, stray, f) ==
    IF f > Len(fams) THEN {}
    ELSE LET cand == StraySwapCandidates(fams, stray, f)
         IN  IF cand = {} THEN StrayExchanges(fams, stray, f + 1)
             ELSE LET p == FirstPair(cand)
                      swap_family == fams[f].jms[p[1]]
                      swap_stray == stray[p[2]]
                      after == [fams EXCEPT ![f] =
                                   SwapJm(f, fams[f], swap_family, swap_stray).fam]
                  IN  {Exchange(fams, after, {f})} \cup
                      StrayExchanges(after, StraySwap(stray, swap_family, swap_stray),
                                     f + 1)

KeepsSizeAndComplete(e) ==
    \A g \in e.involved :
        /\ Len(e.after[g].jms) = Len(e.before[g].jms)
        /\ e.before[g].status = "COMPLETE" => e.after[g].status = "COMPLETE"

\* C21: every swap committed by perfect_swaps and by perfect_stray_swaps
\* leaves the size of each family involved unchanged and leaves a family
\* that was COMPLETE before it COMPLETE
C21_ExchangeKeepsSizeAndComplete ==
    /\ step = "perfect_swaps" =>
          \A e \in FamilyExchanges(families, 1) : KeepsSizeAndComplete(e)
    /\ step = "perfect_stray_swaps" =>
          \A e \in StrayExchanges(families, stray_jms, 1) : KeepsSizeAndComplete(e)

\* A swap pass that commits a swap between an incomplete family and a
\* COMPLETE one
C21_Witness ==
    /\ step = "perfect_swaps"
    /\ \E e \in FamilyExchanges(families, 1) :
          /\ Cardinality(e.involved) = 2
          /\ \E g \in e.involved : e.before[g].status = "COMPLETE"

\* The points of a pass named by C22: after split_families_by_status and
\* after each of the four steps that end with a promotion
WorkingSetsCurrent ==
    \/ step \in {"perfect_stray_adds", "perfect_steals", "perfect_swaps",
                 "perfect_stray_swaps"}
    \/ step \in {"assign_perfect_fits", "done"} /\ iters > 0

\* C22: at those points incomplete_families and complete_families are
\* disjoint, together hold every family exactly once, and complete_families
\* holds exactly the families whose status is COMPLETE
C22_WorkingSetsPartition ==
    WorkingSetsCurrent =>
        LET both == incomplete_families \o complete_families
        IN  /\ \A k, m \in DOMAIN both : k # m => both[k] # both[m]
            /\ {both[k] : k \in DOMAIN both} = DOMAIN families
            /\ \A f \in DOMAIN families :
                  Member(complete_families, f) <=> families[f].status = "COMPLETE"

\* The first steal pass has given family 2 the JM 1, which family 1 held,
\* and the promotion that ends the pass has moved family 2 to
\* complete_families
C22_Witness ==
    /\ step = "perfect_swaps"
    /\ iters = 0
    /\ families[2].jms = <<1>>
    /\ JmAddCheck(1, Family(<<>>, "INCOMPLETE"), 1)
    /\ incomplete_families = <<>>
    /\ complete_families = <<1, 2>>

\* C23: in every state every member of every family has a rating for the
\* family's option of at most max_pref, when a preference constraint is
\* configured, and a value at most max_diff away from the family's, when a
\* difference constraint is configured
C23_MembersPairwiseCompatible ==
    \A f \in DOMAIN families :
        \A i \in DOMAIN families[f].jms :
            LET j == families[f].jms[i]
            IN  /\ HasPreference =>
                      Rating(f, j) <= preference_constraints[1].max_pref
                /\ HasDifference =>
                      Abs(jm_data[j].social - sm_data[f].social)
                          <= difference_constraints[1].max_diff

\* iterate has returned with a JM placed in one family that the pairwise
\* constraints keep out of the other
C23_Witness ==
    /\ step = "done"
    /\ \E f, g \in DOMAIN families :
          \E i \in DOMAIN families[f].jms :
              /\ f # g
              /\ ~PairCompatible(g, families[f].jms[i])
              /\ Len(families[g].jms) < jm_count_constraint.max_count

\* C24: in every state, from the empty families on, no family has more
\* members than jm_count_constraint.max_count
C24_SizeWithinMax ==
    \A f \in DOMAIN families :
        Len(families[f].jms) <= jm_count_constraint.max_count

\* A family is full while a stray JM passes every other test of its
\* add-check
C24_Witness ==
    \E f \in DOMAIN families :
        /\ Len(families[f].jms) = jm_count_constraint.max_count
        /\ \E k \in DOMAIN stray_jms :
              /\ PairCompatible(f, stray_jms[k])
              /\ HasCount =>
                    CountCanBeSatisfied(count_constraints[1],
                                        CountOf(families[f].jms)
                                            + CountOf(<<stray_jms[k]>>), 0)

\* No stray JM passes the add-check of any family
NoStrayAccepted ==
    \A k \in DOMAIN stray_jms :
        \A f \in DOMAIN families : ~JmAddCheck(f, families[f], stray_jms[k])

\* C25: right after assign_perfect_fits no stray JM passes the add-check of
\* any family, and the perfect_stray_adds of the same pass leaves every
\* member list and the stray list as they are
C25_StrayAddsNeverAdd ==
    /\ [](step \in {"split_families_by_status", "perfect_stray_adds"}
              => NoStrayAccepted)
    /\ [][step = "perfect_stray_adds" =>
              /\ \A f \in DOMAIN families : families'[f].jms = families[f].jms
              /\ stray_jms' = stray_jms]_vars

\* perfect_stray_adds is about to scan the stray list for an incomplete
\* family below min_count
C25_Witness ==
    /\ step = "perfect_stray_adds"
    /\ stray_jms # <<>>
    /\ \E n \in DOMAIN incomplete_families :
          ~CountIsSatisfied(jm_count_constraint,
                            Len(families[incomplete_families[n]].jms))

\* C26: no step of iterate makes the stray list longer
C26_StrayCountNonIncreasing ==
    [][Len(stray_jms') <= Len(stray_jms)]_vars

\* A stray swap has put a JM of a family behind a later JM in the stray list
C26_Witness ==
    \E k \in DOMAIN stray_jms :
        k > 1 /\ stray_jms[k] < stray_jms[k - 1]

\* C27: with the family-size constraint alone and a number of JMs between
\* (number of families) * min_count and (number of families) * max_count,
\* iterate returns with no stray JM and every family COMPLETE
C27_SizeOnlyConverges ==
    (/\ step = "done"
     /\ ~HasPreference /\ ~HasCount /\ ~HasDifference
     /\ jm_count_constraint.min_count <= jm_count_constraint.max_count
     /\ Len(families) * jm_count_constraint.min_count <= Len(jm_data)
     /\ Len(jm_data) <= Len(families) * jm_count_constraint.max_count)
    => /\ stray_jms = <<>>
       /\ \A f \in DOMAIN families : families[f].status = "COMPLETE"

\* iterate has returned with a family that never received a JM: it passes
\* full_check and its status is the one set at construction
C27_Witness ==
    /\ step = "done"
    /\ stray_jms = <<>>
    /\ \E f \in DOMAIN families :
          /\ families[f].jms = <<>>
          /\ FullCheck(f, families[f].jms)
          /\ families[f].status = "INCOMPLETE"

\* No two entries of the preference list are for the same (user, slot) pair
OneEntryPerPair(prefs) ==
    \A i, k \in DOMAIN prefs : i # k => KeyOf(prefs[i]) # KeyOf(prefs[k])

\* The exact problem built from the lists is feasible
Feasible(us, sl, prefs, cfg) ==
    LET pm == PreferenceMapOf(prefs)
    IN  FeasiblePoints(us, sl, cfg, AssignmentOf(us, sl, pm)) # {}

\* The total rank of an optimal point of the exact problem, -1 when the
\* problem is infeasible
MinTotalRank(us, sl, prefs, cfg) ==
    LET pm == PreferenceMapOf(prefs)
        asg == AssignmentOf(us, sl, pm)
        opt == OptimalPoints(us, sl, cfg, pm, asg)
    IN  IF opt = {} THEN -1 ELSE Objective(pm, asg, CHOOSE x \in opt : TRUE)

\* C28: when no pair has two preference entries, the exact problem is
\* feasible for the shuffled users and preferences, with the slots in any
\* order, iff it is feasible for the lists as parsed, and its minimum total
\* rank is the same
C28_OrderIndependent ==
    [][(pc = "shuffle" /\ OneEntryPerPair(preferences)) =>
          \A sl \in Shuffles(slots) :
              /\ Feasible(jm_users', sl, preferences', config)
                     <=> Feasible(jm_users, slots, preferences, config)
              /\ MinTotalRank(jm_users', sl, preferences', config)
                     = MinTotalRank(jm_users, slots, preferences, config)
    ]_vars

\* run_matcher has returned a matching for two users and two slots that
\* main had put in another order than the parsed one, each with its
\* preferences
C28_Witness ==
    /\ Returned
    /\ jm_users = <<2, 1>>
    /\ Len(slots) = 2
    /\ Len(preferences) >= 2
    /\ preferences[1].user_id = 2
    /\ OneEntryPerPair(preferences)

====
